---- MODULE Spec2Model ----
(***************************************************************************)
(* A model of the Session class of @gemeentenijmegen/session: a handle     *)
(* built from a cookie header, backed by a DynamoDB table keyed by the     *)
(* SHA-256 of the session token.                                           *)
(*                                                                         *)
(* JavaScript values are type-tagged records, so that `undefined`, `false` *)
(* and strings stay distinguishable the way the code distinguishes them:   *)
(*   Str(s)  a string,  Bool(b)  a boolean,  Undefined  undefined.         *)
(* DynamoDB attribute values keep their wire shape: [S |-> "x"],           *)
(* [BOOL |-> TRUE], [M |-> mapping].  An item is a record whose fields are *)
(* the attributes it has ("data", "ttl"); the key attribute `sessionid` is *)
(* the index of the item in `store`.                                       *)
(***************************************************************************)
EXTENDS Integers, Sequences, FiniteSets, TLC

VARIABLES
    sessionId,    \* per handle: this.sessionId   (string | false | undefined)
    sessionHash,  \* per handle: this.sessionHash (string | false)
    session,      \* per handle: this.session     (GetItem output | undefined)
    ttl,          \* per handle: this.ttl         (minutes)
    store,        \* the DynamoDB table: key -> item
    now,          \* the clock, in milliseconds (Date.getTime())
    uuids,        \* number of crypto.randomUUID() calls made so far
    given,        \* per handle: the options the constructor was given (history)
    hist,         \* per handle: the outcomes of createSession since construction (history)
    last          \* the most recent call: operation, arguments, outcome, store calls

vars == <<sessionId, sessionHash, session, ttl, store, now, uuids, given, hist, last>>

-----------------------------------------------------------------------------
(* Bounds *)

MaxUuids == 1       \* crypto.randomUUID() is called at most this many times
MaxTicks == 1       \* the clock advances at most this many times
MaxCreates == 2     \* the same, where the handle serves one request after another
TickMs == 60 * 1000 + 500     \* one clock step, in milliseconds

Handles == {"h1"}

\* the handles of two requests that are served at the same time
Requests == {"h1", "h2"}

\* the tokens crypto.randomUUID() hands out, in order
uuid == <<"u1", "u2", "u3">>

\* the token a client puts in a cookie without ever having been given it
ForgedToken == "12345"

Tokens == {ForgedToken} \cup {uuid[i] : i \in 1..Len(uuid)}

AttrKeys == {"loggedin", "bsn"}
Strings == {"a", "b"}

-----------------------------------------------------------------------------
(* JavaScript values *)

Str(s) == [string |-> s]
Bool(b) == [boolean |-> b]
Undefined == [undefined |-> TRUE]

IsStr(v) == DOMAIN v = {"string"}
IsBool(v) == DOMAIN v = {"boolean"}

\* ToBoolean: false, undefined and "" are falsy, everything else is truthy
Truthy(v) ==
    IF IsStr(v) THEN v.string # ""
    ELSE IF IsBool(v) THEN v.boolean
    ELSE v # Undefined

\* v == false (loose equality): a boolean equals false when it is false; a
\* string when it converts to the number 0; undefined and objects never do
LooseEqFalse(v) ==
    IF IsBool(v) THEN ~v.boolean
    ELSE IF IsStr(v) THEN v.string \in {"", "0"}
    ELSE FALSE

\* v == '' (loose equality): a string when it is empty, a boolean when it is
\* false (both convert to 0); undefined never
LooseEqEmpty(v) ==
    IF IsStr(v) THEN v.string = ""
    ELSE IF IsBool(v) THEN ~v.boolean
    ELSE FALSE

-----------------------------------------------------------------------------
(* Attribute mappings *)

\* the mappings callers pass to createSession and updateSession
SessionDatas ==
    { [loggedin |-> [BOOL |-> TRUE], bsn |-> [S |-> "a"]],
      [loggedin |-> [BOOL |-> FALSE]],
      [bsn |-> [S |-> "b"]] }

\* the keys callers set one at a time with setValue
SetKeys == {"bsn"}

\* an assignment that starts a new mapping
AssignAlone(m, key, value) == [k \in {key} |-> value]

\* m[key] = value
Assign(m, key, value) ==
    [k \in DOMAIN m \cup {key} |-> IF k = key THEN value ELSE m[k]]

\* the batches callers pass to setValues: key -> string
ValueMaps == { [bsn |-> "b", name |-> "a"], [name |-> "b"] }

\* for (const key of Object.keys(values)) m[key] = { S: values[key] }
RECURSIVE AssignAll(_, _)
AssignAll(m, values) ==
    IF DOMAIN values = {} THEN m
    ELSE LET key == CHOOSE k \in DOMAIN values : TRUE
         IN  AssignAll(Assign(m, key, [S |-> values[key]]),
                       [k \in DOMAIN values \ {key} |-> values[k]])

-----------------------------------------------------------------------------
(* Cookie codec.  A cookie header is a sequence of name/value pairs; an      *)
(* attribute without a value (HttpOnly, Secure) is a sequence of length one. *)
(* The empty sequence is the empty string.                                   *)

\* cookie.parse: the pairs that have a value, the first occurrence of a name wins
parse(cookieString) ==
    LET named == {i \in 1..Len(cookieString) : Len(cookieString[i]) = 2}
        names == {cookieString[i][1] : i \in named}
        first(n) == CHOOSE i \in named :
                        /\ cookieString[i][1] = n
                        /\ \A j \in named : cookieString[j][1] = n => i <= j
    IN  [n \in names |-> cookieString[first(n)][2]]

\* cookies.session, undefined when there is no such cookie
Prop(obj, name) == IF name \in DOMAIN obj THEN Str(obj[name]) ELSE Undefined

getSessionId(cookieString) ==
    IF cookieString = <<>> THEN Bool(FALSE)
    ELSE LET cookies == parse(cookieString)
         IN  IF ~LooseEqEmpty(Prop(cookies, "session"))
             THEN Prop(cookies, "session")
             ELSE Bool(FALSE)

\* a digest that was never fed the token
hashOfNothing(hashString) == "sha256()"

\* a key that is the token itself
hashPlain(hashString) == hashString

\* crypto.createHash('sha256') ... digest('base64'): one-way and collision-free
\* on the tokens of the model; the digest is never the token itself
hash(hashString) ==
    CASE hashString = "12345" -> "sha256(12345)"
      [] hashString = "u1" -> "sha256(u1)"
      [] hashString = "u2" -> "sha256(u2)"
      [] hashString = "u3" -> "sha256(u3)"
      [] hashString = "0" -> "sha256(0)"
      [] hashString = "undefined" -> "sha256(undefined)"
      [] OTHER -> "sha256(?)"

\* encodeURIComponent(String(value)) as cookie.serialize applies it
encode(value) ==
    IF IsStr(value) THEN value.string
    ELSE IF IsBool(value) THEN (IF value.boolean THEN "true" ELSE "false")
    ELSE "undefined"

\* cookie.serialize('session', value, {httpOnly, secure, path: '/'})
serialize(name, value) ==
    << <<name, encode(value)>>, <<"HttpOnly">>, <<"Secure">>, <<"Path", "/">> >>

-----------------------------------------------------------------------------
(* The DynamoDB table *)

NoItemOutput == [metadata |-> 200]      \* a GetItem output without Item

\* the output carries the item; of its attributes the handle reads `data`
\* only, and the output is modelled with that attribute alone
GetItem(db, key) ==
    IF key \in DOMAIN db
    THEN [Item |-> [a \in DOMAIN db[key] \cap {"data"} |-> db[key][a]]]
    ELSE NoItemOutput

PutItem(db, key, item) == [k \in DOMAIN db \cup {key} |-> IF k = key THEN item ELSE db[k]]

\* an update that adds the attributes to the mapping the item has
UpdateItemMerges(db, key, data, t) ==
    LET old == IF key \in DOMAIN db /\ "data" \in DOMAIN db[key] /\ "M" \in DOMAIN db[key].data
               THEN db[key].data.M ELSE <<>>
        merged == [k \in DOMAIN old \cup DOMAIN data.M |->
                      IF k \in DOMAIN data.M THEN data.M[k] ELSE old[k]]
    IN  [k \in DOMAIN db \cup {key} |->
            IF k = key THEN [data |-> [M |-> merged], ttl |-> t] ELSE db[k]]

\* SET #ttl = :ttl, #data = :data, with no condition: the item is created when
\* there is none, and its other attributes (none here) are kept when there is
UpdateItem(db, key, data, t) ==
    [k \in DOMAIN db \cup {key} |-> IF k = key THEN [data |-> data, ttl |-> t] ELSE db[k]]

\* session?.Item?.data !== undefined
HasData(output) == "Item" \in DOMAIN output /\ "data" \in DOMAIN output.Item

\* this?.session?.Item?.data?.M is truthy
HasM(output) == HasData(output) /\ "M" \in DOMAIN output.Item.data

-----------------------------------------------------------------------------
(* The Session class.  `this` is a record of the handle's fields.  A method  *)
(* is an operator from `this`, the table and the success of each store call  *)
(* it makes to an outcome:                                                   *)
(*   this, db   the handle and the table afterwards                          *)
(*   error      "" when the method returns, else what it throws              *)
(*   result     the value returned (Undefined when it throws)                *)
(*   calls      the commands sent to the table, in order                     *)

DefaultTtl == 15

Options == {Undefined, [ttlInMinutes |-> 1]}

Outcome(this, db, error, result, calls) ==
    [this |-> this, db |-> db, error |-> error, result |-> result, calls |-> calls]

constructorImpl(cookieString, options) ==
    LET id == getSessionId(cookieString)
    IN  [ sessionId |-> id,
          sessionHash |-> IF Truthy(id) THEN Str(hash(id.string)) ELSE Bool(FALSE),
          session |-> Undefined,
          ttl |-> IF "ttlInMinutes" \in DOMAIN options
                  THEN options.ttlInMinutes ELSE DefaultTtl ]

\* the expiry with the fifteen minutes written in
ttlFromMinutesFixed(minutes) == (now + 15 * 60000) \div 1000

\* Math.floor(now.getTime() / 1000 + minutes * 60); sent as a decimal string
\* in an N attribute, which the table holds as the number
ttlFromMinutes(minutes) == (now + minutes * 60000) \div 1000

\* an init that renews the expiry of the record it loads
initRenews(this, db, ok) ==
    IF ~Truthy(this.sessionHash)
    THEN Outcome(this, db, "", Bool(FALSE), <<>>)
    ELSE LET key == this.sessionHash.string
             call == [cmd |-> "GetItem", key |-> key, ok |-> ok]
             output == GetItem(db, key)
         IN  IF ~ok THEN Outcome(this, db, "StoreError", Undefined, <<call>>)
             ELSE IF HasData(output)
             THEN Outcome([this EXCEPT !.session = output],
                          [db EXCEPT ![key].ttl = ttlFromMinutes(this.ttl)],
                          "", output, <<call>>)
             ELSE Outcome(this, db, "", Bool(FALSE), <<call>>)

\* an init that answers not-found when the store call fails
initSwallows(this, db, ok) ==
    IF ~Truthy(this.sessionHash)
    THEN Outcome(this, db, "", Bool(FALSE), <<>>)
    ELSE LET key == this.sessionHash.string
             call == [cmd |-> "GetItem", key |-> key, ok |-> ok]
             output == GetItem(db, key)
         IN  IF ~ok THEN Outcome(this, db, "", Bool(FALSE), <<call>>)
             ELSE IF HasData(output)
             THEN Outcome([this EXCEPT !.session = output], db, "", output, <<call>>)
             ELSE Outcome(this, db, "", Bool(FALSE), <<call>>)

initImpl(this, db, ok) ==
    IF ~Truthy(this.sessionHash)
    THEN Outcome(this, db, "", Bool(FALSE), <<>>)
    ELSE LET key == this.sessionHash.string
             call == [cmd |-> "GetItem", key |-> key, ok |-> ok]
             output == GetItem(db, key)
         IN  IF ~ok THEN Outcome(this, db, "StoreError", Undefined, <<call>>)
             ELSE IF HasData(output)
             THEN Outcome([this EXCEPT !.session = output], db, "", output, <<call>>)
             ELSE Outcome(this, db, "", Bool(FALSE), <<call>>)

getValue(this, key, type) ==
    IF ~HasData(this.session) THEN Outcome(this, <<>>, "", Undefined, <<>>)
    ELSE IF ~("M" \in DOMAIN this.session.Item.data)
    THEN Outcome(this, <<>>, "TypeError", Undefined, <<>>)
    ELSE LET M == this.session.Item.data.M
         IN  IF key \in DOMAIN M /\ type \in DOMAIN M[key]
             THEN Outcome(this, <<>>, "",
                          IF type = "BOOL" THEN Bool(M[key][type]) ELSE Str(M[key][type]),
                          <<>>)
             ELSE Outcome(this, <<>>, "", Undefined, <<>>)

\* an isLoggedIn that answers whether the attribute is there
isLoggedInIfPresent(this) ==
    LET r == getValue(this, "loggedin", "BOOL")
    IN  IF r.error = "" THEN [r EXCEPT !.result = Bool(r.result # Undefined)] ELSE r

isLoggedIn(this) ==
    LET r == getValue(this, "loggedin", "BOOL")
    IN  IF r.error = "" /\ r.result = Undefined
        THEN [r EXCEPT !.result = Bool(FALSE)]
        ELSE r

\* an updateSession that looks at the cache before it writes
updateSessionChecksFirst(this, db, sessionData, ok) ==
    IF ~Truthy(this.sessionHash)
    THEN Outcome(this, db, "Error: no sessionid, cannot update empty session",
                 Undefined, <<>>)
    ELSE LET key == this.sessionHash.string
             t == ttlFromMinutes(this.ttl)
             call == [cmd |-> "UpdateItem", key |-> key, ok |-> ok,
                      data |-> [M |-> sessionData], ttl |-> t]
             written == UpdateItem(db, key, [M |-> sessionData], t)
         IN  IF ~HasM(this.session)
             THEN Outcome(this, db, "Error: Session had no data before", Undefined, <<>>)
             ELSE IF ~ok THEN Outcome(this, db, "StoreError", Undefined, <<call>>)
             ELSE Outcome([this EXCEPT !.session.Item.data.M = sessionData],
                          written, "", Undefined, <<call>>)

\* an updateSession that leaves the cache as it was
updateSessionKeepsCache(this, db, sessionData, ok) ==
    IF ~Truthy(this.sessionHash)
    THEN Outcome(this, db, "Error: no sessionid, cannot update empty session",
                 Undefined, <<>>)
    ELSE LET key == this.sessionHash.string
             t == ttlFromMinutes(this.ttl)
             call == [cmd |-> "UpdateItem", key |-> key, ok |-> ok,
                      data |-> [M |-> sessionData], ttl |-> t]
             written == UpdateItem(db, key, [M |-> sessionData], t)
         IN  IF ~ok THEN Outcome(this, db, "StoreError", Undefined, <<call>>)
             ELSE IF ~HasM(this.session)
             THEN Outcome(this, written, "Error: Session had no data before",
                          Undefined, <<call>>)
             ELSE Outcome(this, written, "", Undefined, <<call>>)

\* an updateSession that logs the store's error and goes on
updateSessionSwallows(this, db, sessionData, ok) ==
    IF ~Truthy(this.sessionHash)
    THEN Outcome(this, db, "Error: no sessionid, cannot update empty session",
                 Undefined, <<>>)
    ELSE LET key == this.sessionHash.string
             t == ttlFromMinutes(this.ttl)
             call == [cmd |-> "UpdateItem", key |-> key, ok |-> ok,
                      data |-> [M |-> sessionData], ttl |-> t]
             written == IF ok THEN UpdateItem(db, key, [M |-> sessionData], t) ELSE db
         IN  IF ~HasM(this.session)
             THEN Outcome(this, written, "Error: Session had no data before",
                          Undefined, <<call>>)
             ELSE Outcome([this EXCEPT !.session.Item.data.M = sessionData],
                          written, "", Undefined, <<call>>)

updateSessionImpl(this, db, sessionData, ok) ==
    IF ~Truthy(this.sessionHash)
    THEN Outcome(this, db, "Error: no sessionid, cannot update empty session",
                 Undefined, <<>>)
    ELSE LET key == this.sessionHash.string
             t == ttlFromMinutes(this.ttl)
             call == [cmd |-> "UpdateItem", key |-> key, ok |-> ok,
                      data |-> [M |-> sessionData], ttl |-> t]
             written == UpdateItem(db, key, [M |-> sessionData], t)
         IN  IF ~ok THEN Outcome(this, db, "StoreError", Undefined, <<call>>)
             ELSE IF ~HasM(this.session)
             THEN Outcome(this, written, "Error: Session had no data before",
                          Undefined, <<call>>)
             ELSE Outcome([this EXCEPT !.session.Item.data.M = sessionData],
                          written, "", Undefined, <<call>>)

\* a setValue that writes the one attribute alone
setValueAlone(this, db, key, value, okGet, okUpdate) ==
    LET loaded == IF ~HasData(this.session)
                  THEN initImpl(this, db, okGet)
                  ELSE Outcome(this, db, "", Undefined, <<>>)
        this1 == loaded.this
    IN  IF loaded.error # "" THEN loaded
        ELSE IF ~HasM(this1.session)
        THEN Outcome(this1, db, "TypeError", Undefined, loaded.calls)
        ELSE LET M == [k \in {key} |-> [S |-> value]]
                 this2 == [this1 EXCEPT !.session.Item.data.M = M]
                 updated == updateSessionImpl(this2, db, M, okUpdate)
             IN  [updated EXCEPT !.calls = loaded.calls \o updated.calls]

\* a setValue that starts an empty mapping when the load finds nothing
setValueCreates(this, db, key, value, okGet, okUpdate) ==
    LET loaded == IF ~HasData(this.session)
                  THEN initImpl(this, db, okGet)
                  ELSE Outcome(this, db, "", Undefined, <<>>)
        this1 == IF loaded.error = "" /\ ~HasM(loaded.this.session)
                 THEN [loaded.this EXCEPT !.session = [Item |-> [data |-> [M |-> <<>>]]]]
                 ELSE loaded.this
    IN  IF loaded.error # "" THEN loaded
        ELSE LET data == this1.session.Item.data
                 M == Assign(data.M, key, [S |-> value])
                 this2 == [this1 EXCEPT !.session.Item.data.M = M]
                 updated == updateSessionImpl(this2, db, M, okUpdate)
             IN  [updated EXCEPT !.calls = loaded.calls \o updated.calls]

\* a setValue that loads the record before every write
setValueReloads(this, db, key, value, okGet, okUpdate) ==
    LET loaded == initImpl(this, db, okGet)
        this1 == loaded.this
    IN  IF loaded.error # "" THEN loaded
        ELSE IF ~HasM(this1.session)
        THEN Outcome(this1, db, "TypeError", Undefined, loaded.calls)
        ELSE LET data == this1.session.Item.data
                 M == Assign(data.M, key, [S |-> value])
                 this2 == [this1 EXCEPT !.session.Item.data.M = M]
                 updated == updateSessionImpl(this2, db, M, okUpdate)
             IN  [updated EXCEPT !.calls = loaded.calls \o updated.calls]

setValueImpl(this, db, key, value, okGet, okUpdate) ==
    LET loaded == IF ~HasData(this.session)
                  THEN initImpl(this, db, okGet)
                  ELSE Outcome(this, db, "", Undefined, <<>>)
        this1 == loaded.this
    IN  IF loaded.error # "" THEN loaded
        ELSE IF ~HasM(this1.session)
        THEN Outcome(this1, db, "TypeError", Undefined, loaded.calls)
        ELSE LET data == this1.session.Item.data
                 M == Assign(data.M, key, [S |-> value])
                 this2 == [this1 EXCEPT !.session.Item.data.M = M]
                 updated == updateSessionImpl(this2, db, M, okUpdate)
             IN  [updated EXCEPT !.calls = loaded.calls \o updated.calls]

\* setValues(values): as setValue, for every key of the batch, and one update
setValuesImpl(this, db, values, okGet, okUpdate) ==
    LET loaded == IF ~HasData(this.session)
                  THEN initImpl(this, db, okGet)
                  ELSE Outcome(this, db, "", Undefined, <<>>)
        this1 == loaded.this
    IN  IF loaded.error # "" THEN loaded
        ELSE IF ~HasM(this1.session)
        THEN Outcome(this1, db, "TypeError", Undefined, loaded.calls)
        ELSE LET data == this1.session.Item.data
                 M == AssignAll(data.M, values)
                 this2 == [this1 EXCEPT !.session.Item.data.M = M]
                 updated == updateSessionImpl(this2, db, M, okUpdate)
             IN  [updated EXCEPT !.calls = loaded.calls \o updated.calls]

\* a createSession that writes the record and keeps the token the handle had
createSessionKeepsId(this, db, sessionData, newId, ok) ==
    LET this1 == [this EXCEPT !.sessionHash = Str(hash(newId))]
        t == ttlFromMinutes(this.ttl)
        item == [data |-> [M |-> sessionData], ttl |-> t]
        call == [cmd |-> "PutItem", key |-> this1.sessionHash.string, ok |-> ok,
                 data |-> item.data, ttl |-> t]
    IN  IF ~ok THEN Outcome(this1, db, "StoreError", Undefined, <<call>>)
        ELSE Outcome(this1, PutItem(db, this1.sessionHash.string, item),
                     "", Str(newId), <<call>>)

createSessionImpl(this, db, sessionData, newId, ok) ==
    LET this1 == [this EXCEPT !.sessionHash = Str(hash(newId))]
        t == ttlFromMinutes(this.ttl)
        item == [data |-> [M |-> sessionData], ttl |-> t]
        call == [cmd |-> "PutItem", key |-> this1.sessionHash.string, ok |-> ok,
                 data |-> item.data, ttl |-> t]
    IN  IF ~ok THEN Outcome(this1, db, "StoreError", Undefined, <<call>>)
        ELSE Outcome([this1 EXCEPT !.sessionId = Str(newId)],
                     PutItem(db, this1.sessionHash.string, item),
                     "", Str(newId), <<call>>)

getCookieImpl(this) ==
    LET value == IF ~LooseEqFalse(this.sessionId) THEN this.sessionId ELSE Str("")
    IN  Outcome(this, <<>>, "", serialize("session", value), <<>>)

-----------------------------------------------------------------------------
(* State and operations *)

This(h) == [sessionId |-> sessionId[h], sessionHash |-> sessionHash[h],
            session |-> session[h], ttl |-> ttl[h]]

\* the headers a client sends: none, an empty session cookie, a header without
\* a session cookie, a token it made up, and the cookie of a handle that has a token
CookieStrings ==
    { <<>>,
      << <<"session", "">> >>,
      << <<"other", "1">> >>,
      << <<"session", ForgedToken>> >> }
    \cup {getCookieImpl(This(h)).result : h \in {g \in Handles : Truthy(sessionId[g])}}

NoCall == [op |-> "none", h |-> "none", args |-> <<>>, error |-> "",
           result |-> Undefined, calls |-> <<>>]

\* the handle takes the fields the method left, the table its new contents,
\* and the call is recorded
Return(h, op, args, r, history) ==
    /\ sessionId' = [sessionId EXCEPT ![h] = r.this.sessionId]
    /\ sessionHash' = [sessionHash EXCEPT ![h] = r.this.sessionHash]
    /\ session' = [session EXCEPT ![h] = r.this.session]
    /\ ttl' = [ttl EXCEPT ![h] = r.this.ttl]
    /\ hist' = [hist EXCEPT ![h] = history]
    /\ last' = [op |-> op, h |-> h, args |-> args, error |-> r.error,
                result |-> r.result, calls |-> r.calls]

Init ==
    /\ given \in [Handles -> Options]
    /\ sessionId = [h \in Handles |-> constructorImpl(<<>>, given[h]).sessionId]
    /\ sessionHash = [h \in Handles |-> constructorImpl(<<>>, given[h]).sessionHash]
    /\ session = [h \in Handles |-> constructorImpl(<<>>, given[h]).session]
    /\ ttl = [h \in Handles |-> constructorImpl(<<>>, given[h]).ttl]
    /\ store = <<>>
    /\ now = 0
    /\ uuids = 0
    /\ hist = [h \in Handles |-> {}]
    /\ last = NoCall

\* new Session(cookieString, dbClient, options): the handle of the next request,
\* with the options the application configures for every request
constructor(h, cookieString) ==
    /\ Return(h, "constructor", <<cookieString>>,
              Outcome(constructorImpl(cookieString, given[h]), store, "", Undefined, <<>>),
              {})
    /\ UNCHANGED <<store, now, uuids, given>>

init(h) ==
    \E ok \in BOOLEAN :
        LET r == initImpl(This(h), store, ok)
        IN  /\ Return(h, "init", <<>>, r, hist[h])
            /\ store' = r.db
            /\ UNCHANGED <<now, uuids, given>>

DoIsLoggedIn(h) ==
    /\ Return(h, "isLoggedIn", <<>>, isLoggedIn(This(h)), hist[h])
    /\ UNCHANGED <<store, now, uuids, given>>

\* getValue(key), with the default type 'S'
DoGetValue(h, key) ==
    /\ Return(h, "getValue", <<key>>, getValue(This(h), key, "S"), hist[h])
    /\ UNCHANGED <<store, now, uuids, given>>

getCookie(h) ==
    /\ Return(h, "getCookie", <<>>, getCookieImpl(This(h)), hist[h])
    /\ UNCHANGED <<store, now, uuids, given>>

setValue(h, key, value) ==
    \E okGet, okUpdate \in BOOLEAN :
        LET r == setValueImpl(This(h), store, key, value, okGet, okUpdate)
        IN  /\ Return(h, "setValue", <<key, value>>, r, hist[h])
            /\ store' = r.db
            /\ UNCHANGED <<now, uuids, given>>

updateSession(h, sessionData) ==
    \E ok \in BOOLEAN :
        LET r == updateSessionImpl(This(h), store, sessionData, ok)
        IN  /\ Return(h, "updateSession", <<sessionData>>, r, hist[h])
            /\ store' = r.db
            /\ UNCHANGED <<now, uuids, given>>

createSessionUpTo(h, sessionData, max) ==
    /\ uuids < max
    /\ \E ok \in BOOLEAN :
        LET r == createSessionImpl(This(h), store, sessionData, uuid[uuids + 1], ok)
        IN  /\ Return(h, "createSession", <<sessionData>>, r,
                      hist[h] \cup {IF r.error = "" THEN "created" ELSE "createFailed"})
            /\ store' = r.db
            /\ uuids' = uuids + 1
            /\ UNCHANGED <<now, given>>

createSession(h, sessionData) == createSessionUpTo(h, sessionData, MaxUuids)

(* The environment *)

Tick ==
    /\ now < MaxTicks * TickMs
    /\ now' = now + TickMs
    /\ last' = NoCall
    /\ UNCHANGED <<sessionId, sessionHash, session, ttl, store, uuids, given, hist>>

\* the table's reaper deletes an item whose ttl has passed
Expire(key) ==
    /\ key \in DOMAIN store
    /\ store[key].ttl * 1000 <= now
    /\ store' = [k \in DOMAIN store \ {key} |-> store[k]]
    /\ last' = NoCall
    /\ UNCHANGED <<sessionId, sessionHash, session, ttl, now, uuids, given, hist>>

\* another writer of the table leaves an item without `data`, or with a `data`
\* that is not a map
ForeignWrite(key, item) ==
    /\ key \in DOMAIN store
    /\ store' = [store EXCEPT ![key] = item]
    /\ last' = NoCall
    /\ UNCHANGED <<sessionId, sessionHash, session, ttl, now, uuids, given, hist>>

ForeignItems(key) ==
    { [ttl |-> store[key].ttl], [data |-> [S |-> "a"], ttl |-> store[key].ttl] }

Next ==
    \/ \E h \in Handles, c \in CookieStrings : constructor(h, c)
    \/ \E h \in Handles : init(h)
    \/ \E h \in Handles : DoIsLoggedIn(h)
    \/ \E h \in Handles, k \in AttrKeys : DoGetValue(h, k)
    \/ \E h \in Handles : getCookie(h)
    \/ \E h \in Handles, k \in SetKeys, v \in Strings : setValue(h, k, v)
    \/ \E h \in Handles, d \in SessionDatas : updateSession(h, d)
    \/ \E h \in Handles, d \in SessionDatas : createSession(h, d)
    \/ Tick
    \/ \E k \in DOMAIN store : Expire(k)

Spec == Init /\ [][Next]_vars

\* the same, in a table that other writers write too
NextForeign ==
    \/ Next
    \/ \E k \in DOMAIN store : \E i \in ForeignItems(k) : ForeignWrite(k, i)

SpecForeign == Init /\ [][NextForeign]_vars

(* One handle after another: the cookie path alone, the token created anew  *)
(* up to MaxCreates times, and a client that sends a session cookie "0"      *)

CookieHeaders == CookieStrings \cup { << <<"session", "0">> >> }

NextCookies ==
    \/ \E h \in Handles, c \in CookieHeaders : constructor(h, c)
    \/ \E h \in Handles : init(h)
    \/ \E h \in Handles : getCookie(h)
    \/ \E h \in Handles, d \in SessionDatas : createSessionUpTo(h, d, MaxCreates)

SpecCookies == Init /\ [][NextCookies]_vars

(* One handle that sets values in batches *)

setValues(h, values) ==
    \E okGet, okUpdate \in BOOLEAN :
        LET r == setValuesImpl(This(h), store, values, okGet, okUpdate)
        IN  /\ Return(h, "setValues", <<values>>, r, hist[h])
            /\ store' = r.db
            /\ UNCHANGED <<now, uuids, given>>

NextBatch ==
    \/ \E h \in Handles, c \in CookieStrings : constructor(h, c)
    \/ \E h \in Handles : init(h)
    \/ \E h \in Handles, m \in ValueMaps : setValues(h, m)
    \/ \E h \in Handles, k \in SetKeys, v \in Strings : setValue(h, k, v)
    \/ \E h \in Handles, d \in SessionDatas : createSession(h, d)

SpecBatch == Init /\ [][NextBatch]_vars

(* Two requests of one client at the same time: each has its handle, built  *)
(* from the cookie that createSession handed out                             *)

RaceKeys == {"bsn", "name"}

RaceCookies ==
    {getCookieImpl(This(h)).result : h \in {g \in Requests : Truthy(sessionId[g])}}

InitRace ==
    /\ given = [h \in Requests |-> Undefined]
    /\ sessionId = [h \in Requests |-> constructorImpl(<<>>, given[h]).sessionId]
    /\ sessionHash = [h \in Requests |-> constructorImpl(<<>>, given[h]).sessionHash]
    /\ session = [h \in Requests |-> constructorImpl(<<>>, given[h]).session]
    /\ ttl = [h \in Requests |-> constructorImpl(<<>>, given[h]).ttl]
    /\ store = <<>>
    /\ now = 0
    /\ uuids = 0
    /\ hist = [h \in Requests |-> {}]
    /\ last = NoCall

NextRace ==
    \/ \E h \in Requests, c \in RaceCookies : constructor(h, c)
    \/ \E h \in Requests : init(h)
    \/ \E h \in Requests, k \in RaceKeys, v \in Strings : setValue(h, k, v)
    \/ \E h \in Requests, d \in SessionDatas : createSession(h, d)

SpecRace == InitRace /\ [][NextRace]_vars

(* Two clients at the same time: one holds the token createSession handed   *)
(* out, the other a token of its own making                                  *)

ClientCookies == RaceCookies \cup { << <<"session", ForgedToken>> >> }

\* what the two clients store
ClientDatas == { [loggedin |-> [BOOL |-> FALSE]], [bsn |-> [S |-> "b"]] }
ClientStrings == {"a"}

NextClients ==
    \/ \E h \in Requests, c \in ClientCookies : constructor(h, c)
    \/ \E h \in Requests : init(h)
    \/ \E h \in Requests, k \in SetKeys, v \in ClientStrings : setValue(h, k, v)
    \/ \E h \in Requests, d \in ClientDatas : updateSession(h, d)
    \/ \E h \in Requests, d \in ClientDatas : createSession(h, d)

SpecClients == InitRace /\ [][NextClients]_vars

-----------------------------------------------------------------------------
(* Vocabulary of the properties *)

ThisNext(h) == [sessionId |-> sessionId'[h], sessionHash |-> sessionHash'[h],
                session |-> session'[h], ttl |-> ttl'[h]]

\* the JavaScript value of attribute value `attr` read as type t
JsValue(attr, t) == IF t = "BOOL" THEN Bool(attr[t]) ELSE Str(attr[t])

\* what getValue(key, t) returns from a handle whose cached mapping is m
Reads(m, key, t) ==
    IF key \in DOMAIN m /\ t \in DOMAIN m[key] THEN JsValue(m[key], t) ELSE Undefined

Types == {"S", "BOOL"}

IsWrite(call) == call.cmd \in {"PutItem", "UpdateItem"}

Writes(calls) == {i \in 1..Len(calls) : IsWrite(calls[i])}

AllOk(calls) == \A i \in 1..Len(calls) : calls[i].ok

\* the minutes the handle was constructed with: the option, or 15 without one
MinutesGiven(h) ==
    IF given[h] = Undefined THEN 15 ELSE given[h].ttlInMinutes

-----------------------------------------------------------------------------
(* Properties *)

\* C1: after a successful createSession(A), on any handle, getValue(k) on that
\* handle returns A[k] for every key k of A, with no init() in between.
C1_CreateThenGetValue ==
    \A h \in Handles :
        (last.op = "createSession" /\ last.h = h /\ last.error = "")
        => LET A == last.args[1]
           IN  \A k \in DOMAIN A : \A t \in DOMAIN A[k] :
                   getValue(This(h), k, t).result = JsValue(A[k], t)

\* C2: createSession(A) followed by setValue(k, v), both successful, on any
\* handle: the cached mapping and the record at the handle's key are A with k
\* set to v, and the two calls made two store writes, one put and one update.
C2_CreateThenSetValue ==
    [][\A h \in Handles :
        ( /\ last.op = "createSession" /\ last.h = h /\ last.error = ""
          /\ last'.op = "setValue" /\ last'.h = h /\ last'.error = "" )
        => LET A == last.args[1]
               want == Assign(A, last'.args[1], [S |-> last'.args[2]])
               key == sessionHash'[h].string
               calls == last.calls \o last'.calls
           IN  /\ HasM(session'[h])
               /\ session'[h].Item.data.M = want
               /\ key \in DOMAIN store'
               /\ store'[key].data = [M |-> want]
               /\ Cardinality(Writes(calls)) = 2
               /\ {calls[i].cmd : i \in Writes(calls)} = {"PutItem", "UpdateItem"}
      ]_vars

\* C3: a successful setValue(k, v) on a handle whose session is loaded makes
\* getValue(k) return v, leaves getValue(j) as it was for every other key j of
\* the cached mapping, and writes the previous mapping with only k changed.
C3_SetValueFrame ==
    [][\A h \in Handles :
        ( /\ last'.op = "setValue" /\ last'.h = h /\ last'.error = ""
          /\ HasData(session[h]) )
        => LET M == session[h].Item.data.M
               k == last'.args[1]
               v == last'.args[2]
               sent == last'.calls[Len(last'.calls)]
           IN  /\ getValue(ThisNext(h), k, "S").result = Str(v)
               /\ \A j \in DOMAIN M \ {k} : \A t \in Types :
                      getValue(ThisNext(h), j, t).result = getValue(This(h), j, t).result
               /\ sent.cmd = "UpdateItem"
               /\ DOMAIN sent.data.M = DOMAIN M \cup {k}
               /\ sent.data.M[k] = [S |-> v]
               /\ \A j \in DOMAIN M \ {k} : sent.data.M[j] = M[j]
               /\ store'[sent.key].data = sent.data
      ]_vars

\* C3's case: setValue succeeded without loading first, on a mapping that has
\* another key, and that key is still there
C3_Witness ==
    /\ last.op = "setValue" /\ last.error = "" /\ Len(last.calls) = 1
    /\ last.args[1] = "bsn"
    /\ "loggedin" \in DOMAIN session[last.h].Item.data.M

\* C4: updateSession and setValue on a handle without a token throw and send
\* nothing to the store.
C4_NoTokenNoStoreCall ==
    \A h \in Handles :
        ( /\ last.op \in {"updateSession", "setValue"} /\ last.h = h
          /\ ~Truthy(sessionId[h]) )
        => (last.error # "" /\ last.calls = <<>>)

\* C5: updateSession on a handle that has a token, and on which no init() has
\* succeeded and no createSession has been called, throws; the store write is
\* issued before the throw (and done, when the store accepts it), and the
\* handle's cache stays absent.
C5_StaleHandleThrowsAfterWrite ==
    \A h \in Handles :
        ( /\ last.op = "updateSession" /\ last.h = h
          /\ Truthy(sessionId[h]) /\ hist[h] = {} /\ ~HasData(session[h]) )
        => /\ last.error # ""
           /\ Len(last.calls) = 1
           /\ last.calls[1].cmd = "UpdateItem"
           /\ last.calls[1].key = hash(sessionId[h].string)
           /\ last.calls[1].data = [M |-> last.args[1]]
           /\ last.calls[1].ok =>
                  /\ last.error = "Error: Session had no data before"
                  /\ store[last.calls[1].key].data = [M |-> last.args[1]]
           /\ session[h] = Undefined

\* C5's case: the store took the write and updateSession threw all the same
C5_Witness ==
    /\ last.op = "updateSession"
    /\ Truthy(sessionId[last.h]) /\ hist[last.h] = {} /\ ~HasData(session[last.h])
    /\ last.error = "Error: Session had no data before"
    /\ last.calls[1].ok

\* C6: after a successful createSession on a handle, updateSession(attrs) on
\* it does not throw when the store accepts the write, and the cached mapping
\* is attrs afterwards.
C6_UpdateAfterCreate ==
    \A h \in Handles :
        ( /\ last.op = "updateSession" /\ last.h = h
          /\ "created" \in hist[h] /\ AllOk(last.calls) )
        => /\ last.error = ""
           /\ HasM(session[h])
           /\ session[h].Item.data.M = last.args[1]

\* C7: after a successful updateSession(attrs) the handle's cached mapping is
\* exactly attrs, and getValue(k) returns attrs[k] for every k, with no init().
C7_UpdateReplacesCache ==
    \A h \in Handles :
        (last.op = "updateSession" /\ last.h = h /\ last.error = "")
        => LET attrs == last.args[1]
           IN  /\ HasM(session[h])
               /\ session[h].Item.data.M = attrs
               /\ \A k \in AttrKeys : \A t \in Types :
                      getValue(This(h), k, t).result = Reads(attrs, k, t)

\* C7's case: an update that succeeded on a loaded handle
C7_Witness ==
    /\ last.op = "updateSession" /\ last.error = ""
    /\ HasM(session[last.h])
    /\ last.args[1] = [loggedin |-> [BOOL |-> FALSE]]

C9_ReadsLeaveStore ==
    [][last'.op \in {"init", "getValue", "isLoggedIn", "getCookie"} => store' = store]_vars

\* C9's case: a session written at time 0 is loaded later, and its expiry is
\* still the one of the write
C9_Witness ==
    /\ last.op = "init" /\ last.error = "" /\ HasData(last.result)
    /\ now > 0
    /\ store[last.calls[1].key].ttl = MinutesGiven(last.h) * 60

\* C10: isLoggedIn() returns true when the handle has a loaded session whose
\* "loggedin" attribute is the boolean true, and false otherwise: with no
\* session loaded, with the attribute missing, with the attribute false.
C10_IsLoggedIn ==
    \A h \in Handles :
        (last.op = "isLoggedIn" /\ last.h = h /\ last.error = "")
        => /\ last.result \in {Bool(TRUE), Bool(FALSE)}
           /\ last.result = Bool(TRUE) <=>
                  /\ HasM(session[h])
                  /\ "loggedin" \in DOMAIN session[h].Item.data.M
                  /\ session[h].Item.data.M["loggedin"] = [BOOL |-> TRUE]

\* C10's case: a loaded session that is logged in
C10_Witness ==
    /\ last.op = "isLoggedIn" /\ last.result = Bool(TRUE)

\* C10's other cases: loaded without the attribute, and loaded with it false
C10_WitnessMissing ==
    /\ last.op = "isLoggedIn" /\ last.result = Bool(FALSE)
    /\ HasM(session[last.h])
    /\ "loggedin" \notin DOMAIN session[last.h].Item.data.M

C10_WitnessFalse ==
    /\ last.op = "isLoggedIn" /\ last.result = Bool(FALSE)
    /\ HasM(session[last.h])
    /\ "loggedin" \in DOMAIN session[last.h].Item.data.M

\* C11: isLoggedIn() never throws, in no state a handle can reach, also not
\* after init() has cached a record whose `data` is not an attribute map.
C11_IsLoggedInNeverThrows ==
    last.op = "isLoggedIn" => last.error = ""

\* C12: every store call is keyed by the hash of a session token and never by
\* a token itself, and no key of the store is a token.
C12_KeysAreHashes ==
    LET hashes == {hash(t) : t \in Tokens}
    IN  /\ \A i \in 1..Len(last.calls) :
               last.calls[i].key \in hashes \ Tokens
        /\ DOMAIN store \subseteq hashes \ Tokens
        /\ (last.op = "createSession" /\ last.error = "")
               => last.calls[1].key = hash(last.result.string)

\* C12's case: the token createSession handed out, and the record under its hash
C12_Witness ==
    /\ last.op = "createSession" /\ last.error = ""
    /\ last.result.string \notin DOMAIN store
    /\ hash(last.result.string) \in DOMAIN store

\* the tokens a client can put in a cookie without having been given them
ClientTokens == {ForgedToken, "0"}

\* C13: a successful createSession gives the handle a token that differs from
\* the one it had and from every token generated or sent before, sets the key
\* to the hash of that token, writes the record at that key and returns the
\* token; getCookie() afterwards carries it.
C13_CreateFreshToken ==
    [][\A h \in Handles :
        (last'.op = "createSession" /\ last'.h = h /\ last'.error = "")
        => LET new == last'.result
           IN  /\ IsStr(new)
               /\ new # sessionId[h]
               /\ new.string \notin ClientTokens \cup {uuid[i] : i \in 1..uuids}
               /\ sessionId'[h] = new
               /\ sessionHash'[h] = Str(hash(new.string))
               /\ last'.calls[1].cmd = "PutItem"
               /\ last'.calls[1].key = hash(new.string)
               /\ hash(new.string) \in DOMAIN store'
               /\ store'[hash(new.string)].data = [M |-> last'.args[1]]
               /\ getCookieImpl(ThisNext(h)).result[1] = <<"session", new.string>>
      ]_vars

\* C13's case: the second token, created on a handle that was built from a
\* cookie after the first was created
C13_Witness ==
    /\ last.op = "createSession" /\ last.error = ""
    /\ uuids = 2
    /\ hist[last.h] = {"created"}
    /\ sessionId[last.h] = Str(uuid[2])

\* C14: a handle built from the cookie of a handle that holds token T has
\* token T and the same key; and built from the cookie of a handle that has
\* just created a session with A, its init() loads exactly A.
C14_CookieRoundTrip ==
    [][\A h \in Handles :
        ( /\ Truthy(sessionId[h])
          /\ last'.op = "constructor" /\ last'.h = h
          /\ last'.args[1] = getCookieImpl(This(h)).result )
        => /\ sessionId'[h] = sessionId[h]
           /\ sessionHash'[h] = sessionHash[h]
           /\ (last.op = "createSession" /\ last.h = h /\ last.error = "")
                  => LET loaded == initImpl(ThisNext(h), store', TRUE)
                     IN  /\ loaded.error = ""
                         /\ HasData(loaded.result)
                         /\ loaded.result.Item.data = [M |-> last.args[1]]
      ]_vars

\* the headers that carry no session token: the empty header, one without a
\* cookie named "session", and one whose "session" cookie is the empty string
NoTokenHeaders ==
    { <<>>, << <<"other", "1">> >>, << <<"session", "">> >> }

\* C15: the constructor never throws, and from the empty header, a header with
\* no "session" cookie and a header with an empty "session" cookie the handle's
\* sessionId is false and its key is false.
C15_ConstructorAbsentToken ==
    \A h \in Handles :
        (last.op = "constructor" /\ last.h = h /\ last.args[1] \in NoTokenHeaders)
        => /\ last.error = ""
           /\ sessionId[h] = Bool(FALSE)
           /\ sessionHash[h] = Bool(FALSE)

\* C16: getCookie() emits the cookie "session" with HttpOnly, Secure and
\* Path=/, whose value is the handle's token, and the empty string on a handle
\* with no token.
C16_GetCookie ==
    \A h \in Handles :
        (last.op = "getCookie" /\ last.h = h)
        => /\ last.error = ""
           /\ last.result =
                  << <<"session", IF Truthy(sessionId[h]) THEN sessionId[h].string ELSE "">>,
                     <<"HttpOnly">>, <<"Secure">>, <<"Path", "/">> >>

\* C17: init() on a handle with no token returns false, sends nothing to the
\* store, and leaves the cache absent.
C17_InitWithoutToken ==
    \A h \in Handles :
        (last.op = "init" /\ last.h = h /\ ~Truthy(sessionId[h]))
        => /\ last.error = ""
           /\ last.result = Bool(FALSE)
           /\ last.calls = <<>>
           /\ session[h] = Undefined

\* C18: init() on a handle with a key returns the record, and caches it, when
\* the store has a record with `data` at the key; returns false, without
\* throwing, when the store has no record there or one without `data`; and
\* throws when the store call fails.
C18_InitOutcomes ==
    \A h \in Handles :
        (last.op = "init" /\ last.h = h /\ Truthy(sessionHash[h]))
        => LET key == sessionHash[h].string
               found == key \in DOMAIN store /\ "data" \in DOMAIN store[key]
           IN  /\ Len(last.calls) = 1
               /\ last.calls[1].cmd = "GetItem"
               /\ last.calls[1].key = key
               /\ ~last.calls[1].ok => (last.error # "" /\ last.result = Undefined)
               /\ last.calls[1].ok =>
                      /\ last.error = ""
                      /\ found => /\ HasData(last.result)
                                  /\ last.result.Item.data = store[key].data
                                  /\ session[h] = last.result
                      /\ ~found => last.result = Bool(FALSE)

\* C18's case: the store has a record at the key and the record has no `data`
C18_Witness ==
    /\ last.op = "init" /\ last.error = "" /\ last.result = Bool(FALSE)
    /\ Len(last.calls) = 1
    /\ last.calls[1].key \in DOMAIN store
    /\ "data" \notin DOMAIN store[last.calls[1].key]

\* C18's other cases: the record is returned, and the store call fails
C18_WitnessFound ==
    /\ last.op = "init" /\ last.error = "" /\ HasData(last.result)

C18_WitnessFailed ==
    /\ last.op = "init" /\ last.error = "StoreError"

\* C19: when a store call inside createSession, updateSession or setValue
\* fails, the operation throws and returns nothing.
C19_FailedWriteThrows ==
    ( /\ last.op \in {"createSession", "updateSession", "setValue"}
      /\ ~AllOk(last.calls) )
    => (last.error # "" /\ last.result = Undefined)

\* C19's case: setValue loaded the session and the store refused the update
C19_Witness ==
    /\ last.op = "setValue" /\ Len(last.calls) = 2
    /\ last.calls[1].ok /\ ~last.calls[2].ok
    /\ last.error = "StoreError"

\* C20 as claimed: two handles of one token hold the same loaded mapping, one
\* sets a key and then the other sets a different key; the record is then the
\* later writer's mapping and the key the earlier writer set is not in it.
C20_EarlierKeyAbsent ==
    [][\A g, h \in Requests :
        ( /\ g # h /\ sessionHash[g] = sessionHash[h]
          /\ last.op = "setValue" /\ last.h = g /\ last.error = ""
          /\ Len(last.calls) = 1
          /\ HasM(session[h])
          /\ session[g].Item.data.M
                 = Assign(session[h].Item.data.M, last.args[1], [S |-> last.args[2]])
          /\ session[g].Item.data.M # session[h].Item.data.M
          /\ last'.op = "setValue" /\ last'.h = h /\ last'.error = ""
          /\ last'.args[1] # last.args[1] )
        => LET record == store'[sessionHash[h].string].data.M
           IN  /\ record = last'.calls[1].data.M
               /\ last.args[1] \notin DOMAIN record
      ]_vars

\* C20: a handle that holds a loaded mapping sets a key right after another
\* handle of the same token has set a different key; the record is then the
\* mapping the later writer had loaded with its own key set, and nothing else:
\* the earlier writer's key is as the later writer had loaded it, absent when
\* the loaded mapping did not have it.
C20_LaterWriteWins ==
    [][\A g, h \in Requests :
        ( /\ g # h /\ sessionHash[g] = sessionHash[h]
          /\ last.op = "setValue" /\ last.h = g /\ last.error = ""
          /\ HasM(session[h])
          /\ last'.op = "setValue" /\ last'.h = h /\ last'.error = ""
          /\ last'.args[1] # last.args[1] )
        => LET loaded == session[h].Item.data.M
               mine == Assign(loaded, last'.args[1], [S |-> last'.args[2]])
               record == store'[sessionHash[h].string].data.M
               k1 == last.args[1]
           IN  /\ record = mine
               /\ k1 \in DOMAIN loaded => record[k1] = loaded[k1]
               /\ k1 \notin DOMAIN loaded => k1 \notin DOMAIN record
      ]_vars

\* C20's case: the update is lost; the earlier writer's handle holds the key
\* it set and the record, written by the other handle, does not
C20_Witness ==
    \E g, h \in Requests :
        /\ g # h /\ sessionHash[g] = sessionHash[h]
        /\ last.op = "setValue" /\ last.h = h /\ last.error = ""
        /\ last.args[1] = "bsn"
        /\ HasM(session[g])
        /\ "name" \in DOMAIN session[g].Item.data.M
        /\ "name" \notin DOMAIN store[sessionHash[h].string].data.M

\* C21: setValues(m) on a loaded handle sets every key of m to its value in m,
\* leaves every cached key that is not in m as it was, and sends one store
\* write for the whole batch; init() followed by setValues is two store calls.
C21_SetValuesBatch ==
    [][\A h \in Handles :
        ( /\ last'.op = "setValues" /\ last'.h = h /\ last'.error = ""
          /\ HasData(session[h]) )
        => LET M == session[h].Item.data.M
               m == last'.args[1]
               after == session'[h].Item.data.M
           IN  /\ \A k \in DOMAIN m : getValue(ThisNext(h), k, "S").result = Str(m[k])
               /\ DOMAIN after = DOMAIN M \cup DOMAIN m
               /\ \A j \in DOMAIN M \ DOMAIN m : after[j] = M[j]
               /\ Len(last'.calls) = 1
               /\ last'.calls[1].cmd = "UpdateItem"
               /\ last'.calls[1].data = [M |-> after]
               /\ store'[last'.calls[1].key].data = [M |-> after]
               /\ (last.op = "init" /\ last.h = h)
                      => Len(last.calls) + Len(last'.calls) = 2
      ]_vars

\* C21's case: init() and then a batch of two keys, on a session that has a
\* key the batch does not have
C21_Witness ==
    /\ last.op = "setValues" /\ last.error = "" /\ Len(last.calls) = 1
    /\ DOMAIN last.args[1] = {"bsn", "name"}
    /\ "loggedin" \in DOMAIN session[last.h].Item.data.M

\* C22: after a successful updateSession(attrs) the record at the handle's key
\* has data exactly attrs and the expiry of this write, and every other record
\* of the store is as it was.
C22_UpdateReplacesRecord ==
    [][\A h \in Handles :
        (last'.op = "updateSession" /\ last'.h = h /\ last'.error = "")
        => LET key == sessionHash[h].string
               due == now' + MinutesGiven(h) * 60 * 1000
           IN  /\ key \in DOMAIN store'
               /\ store'[key].data = [M |-> last'.args[1]]
               /\ store'[key].ttl * 1000 <= due
               /\ due < (store'[key].ttl + 1) * 1000
               /\ DOMAIN store' = DOMAIN store \cup {key}
               /\ \A k \in DOMAIN store \ {key} : store'[k] = store[k]
      ]_vars

\* C22's case: an update, later than the write before it, that drops a key the
\* record had, in a store that has another record
C22_Witness ==
    /\ last.op = "updateSession" /\ last.error = ""
    /\ last.args[1] = [loggedin |-> [BOOL |-> FALSE]]
    /\ Cardinality(DOMAIN store) = 2
    /\ now > 0

\* C23: when the store write of setValue(k, v) or updateSession(attrs) fails,
\* the cached mapping is as before the call and getValue reads what it read
\* before, never the value that was not written.
C23_FailedWriteKeepsCache ==
    [][\A h \in Handles :
        ( /\ last'.op \in {"setValue", "updateSession"} /\ last'.h = h
          /\ \E i \in Writes(last'.calls) : ~last'.calls[i].ok )
        => /\ \A k \in AttrKeys : \A t \in Types :
                  getValue(ThisNext(h), k, t).result = getValue(This(h), k, t).result
           /\ HasData(session[h]) => session'[h] = session[h]
      ]_vars

\* C24: between operations the handle's key is the hash of its token when it
\* has a token and false when it has none, also after a createSession whose
\* store write failed.
C24_KeyIsHashOfToken ==
    \A h \in Handles :
        IF Truthy(sessionId[h])
        THEN sessionHash[h] = Str(hash(sessionId[h].string))
        ELSE sessionHash[h] = Bool(FALSE)

\* C25: every record's key is the hash of a token createSession generated, and
\* updateSession and setValue create no record where the store has none.
C25_OnlyCreateMakesRecords ==
    [][ /\ DOMAIN store' \subseteq {hash(uuid[i]) : i \in 1..uuids'}
        /\ last'.op \in {"updateSession", "setValue"}
               => DOMAIN store' \subseteq DOMAIN store
      ]_vars

\* C26: when init() has just returned not-found, getValue returns undefined
\* for every key and isLoggedIn() returns false.
C26_NotFoundClearsReads ==
    \A h \in Handles :
        ( /\ last.op = "init" /\ last.h = h
          /\ last.error = "" /\ last.result = Bool(FALSE) )
        => /\ \A k \in AttrKeys : \A t \in Types :
                  getValue(This(h), k, t).result = Undefined
           /\ isLoggedIn(This(h)).result = Bool(FALSE)

\* C27: setValue on a handle that has a token and no cached attributes loads
\* once, before any write; when the load finds nothing, setValue throws, sends
\* no write and leaves the store as it was.
C27_SetValueLoadsFirst ==
    [][\A h \in Handles :
        ( /\ last'.op = "setValue" /\ last'.h = h
          /\ Truthy(sessionId[h]) /\ ~HasData(session[h]) )
        => LET calls == last'.calls
               key == sessionHash[h].string
               found == key \in DOMAIN store /\ "data" \in DOMAIN store[key]
           IN  /\ Len(calls) >= 1
               /\ calls[1].cmd = "GetItem"
               /\ calls[1].key = key
               /\ Cardinality({i \in 1..Len(calls) : calls[i].cmd = "GetItem"}) = 1
               /\ (calls[1].ok /\ ~found)
                      => /\ last'.error # ""
                         /\ Writes(calls) = {}
                         /\ store' = store
      ]_vars

\* C27's case: the handle has a token, the store has no record for it, and
\* setValue threw after its one load
C27_Witness ==
    /\ last.op = "setValue" /\ last.error = "TypeError"
    /\ Truthy(sessionId[last.h])
    /\ Len(last.calls) = 1 /\ last.calls[1].ok
    /\ last.calls[1].key \notin DOMAIN store

\* C28: init, createSession, updateSession and setValue on a handle send
\* every store call to the handle's current key and change no record but the
\* one at that key; the record at the key of another handle's different token
\* is neither read nor changed.
C28_IsolatedByToken ==
    [][\A h \in Requests :
        ( /\ last'.h = h
          /\ last'.op \in {"init", "createSession", "updateSession", "setValue"} )
        => LET calls == last'.calls
           IN  /\ \A i \in 1..Len(calls) : Str(calls[i].key) = sessionHash'[h]
               /\ \A k \in DOMAIN store \cup DOMAIN store' :
                      Str(k) # sessionHash'[h]
                      => (k \in DOMAIN store /\ k \in DOMAIN store' /\ store'[k] = store[k])
               /\ \A g \in Requests \ {h} :
                      ( /\ Truthy(sessionId[g])
                        /\ sessionId[g] # sessionId[h]
                        /\ sessionId[g] # sessionId'[h] )
                      => LET other == hash(sessionId[g].string)
                         IN  /\ \A i \in 1..Len(calls) : calls[i].key # other
                             /\ other \in DOMAIN store' <=> other \in DOMAIN store
                             /\ other \in DOMAIN store => store'[other] = store[other]
      ]_vars

\* C28's case: two handles with different tokens, a record for each, and one
\* of them has just replaced its own
C28_Witness ==
    \E g, h \in Requests :
        /\ Truthy(sessionId[g]) /\ Truthy(sessionId[h])
        /\ sessionId[g] # sessionId[h]
        /\ last.op = "updateSession" /\ last.h = h /\ last.error = ""
        /\ hash(sessionId[g].string) \in DOMAIN store
        /\ hash(sessionId[h].string) \in DOMAIN store
        /\ store[hash(sessionId[g].string)].data # store[hash(sessionId[h].string)].data

====
